---- MODULE Spec2Model ----
(***************************************************************************)
(* Organization directory service: organizations, memberships and the      *)
(* admin-gated membership state machine of                                  *)
(* src/agent_server/services/organization_service.py, run against the      *)
(* two tables created by the alembic migration.                             *)
(*                                                                          *)
(* Every request owns a session (get_organization_service).  Each `await   *)
(* self.session...` of a handler is one step of the request: between two   *)
(* steps other requests may run.  A statement reads the committed rows of  *)
(* the moment it executes (read committed); flush and COMMIT are one step  *)
(* in which the store checks its constraints.  The first statement of a    *)
(* handler opens the transaction, whose now() stamps the rows it inserts.  *)
(***************************************************************************)
EXTENDS Integers, FiniteSets, Sequences, TLC

\* ---------------------------------------------------------------- bounds
MaxOrgs == 2        \* organization identifiers uuid4 hands out
MaxClock == 3       \* requests served (one transaction timestamp each)

Users == {"a", "b", "c"}
Names == {"acme", "beta"}
Roles == {"admin", "staff"}
Procs == {1, 2}
OrgIds == 1..MaxOrgs

VARIABLES
  organizations,         \* table organizations: set of rows
  organization_members,  \* table organization_members: set of rows
  uuids,                 \* identifiers uuid4 produced for a stored row
  clock,                 \* now(): advances with every request
  pc,                    \* per request: the statement it is about to execute
  req,                   \* per request: operation and arguments
  loaded,                \* per request: the objects held by its session
  response               \* the response being sent, with its request

vars == <<organizations, organization_members, uuids, clock, pc, req, loaded,
          response>>

\* ------------------------------------------------------------ responses
NoResult == [status |-> 0, org |-> {}, members |-> <<>>, views |-> <<>>]

HTTPException(code) == [status |-> code, org |-> {}, members |-> <<>>, views |-> <<>>]

\* an exception that is not an HTTPException leaves the handler: 500
ServerError == [status |-> 500, org |-> {}, members |-> <<>>, views |-> <<>>]

\* ----------------------------------------------------------- the tables
OrgRow(id, name, creator, at) ==
  [org_id |-> id, name |-> name, created_by |-> creator, created_at |-> at]

MemberRow(id, user, role, inviter, at) ==
  [org_id |-> id, user_id |-> user, role |-> role, invited_by |-> inviter,
   created_at |-> at]

\* a list in the order the store returns the rows of S (unspecified, fixed)
RECURSIVE Rows(_)
Rows(S) ==
  IF S = {} THEN <<>>
  ELSE LET r == CHOOSE x \in S : TRUE IN <<r>> \o Rows(S \ {r})

\* Session.scalar: the first row of the result, or None (the empty set)
Scalar(S) == IF S = {} THEN {} ELSE {CHOOSE x \in S : TRUE}

\* Session.get(Organization, org_id)
GetOrg(org_id) == Scalar({o \in organizations : o.org_id = org_id})

get_membership(org_id, user_id) ==
  Scalar({m \in organization_members :
            m.org_id = org_id /\ m.user_id = user_id})

\* _require_admin without the `membership is None` test
require_admin_RoleOnly(org_id, user_id) ==
  \A m \in get_membership(org_id, user_id) : m.role = "admin"

\* _require_admin without the role test
require_admin_AnyMember(org_id, user_id) ==
  get_membership(org_id, user_id) # {}

\* _require_admin letting the creator of the organization through as well
require_admin_OrCreator(org_id, user_id) ==
  \/ \E m \in get_membership(org_id, user_id) : m.role = "admin"
  \/ \E o \in GetOrg(org_id) : o.created_by = user_id

\* TRUE when _require_admin returns, FALSE when it raises 403
require_admin(org_id, user_id) ==
  LET membership == get_membership(org_id, user_id)
  IN membership # {} /\ \A m \in membership : m.role = "admin"

\* constraints of the migration, checked when a flush inserts rows
OrgPkOk(o) == \A x \in organizations : x.org_id # o.org_id
\* organizations without the unique constraint and index on name
OrgNameUniqueOk_Unchecked(o) == TRUE

OrgNameUniqueOk(o) == \A x \in organizations : x.name # o.name
\* organization_members without its primary key
MemberPkOk_Unchecked(m, members) == TRUE

MemberPkOk(m, members) ==
  \A x \in members : ~(x.org_id = m.org_id /\ x.user_id = m.user_id)
\* organization_members.org_id without its foreign key
MemberFkOk_Unchecked(m, orgs) == TRUE

MemberFkOk(m, orgs) == \E o \in orgs : o.org_id = m.org_id

\* the foreign key without ON DELETE CASCADE semantics: the rows stay
Cascade_Orphans(org_id) == organization_members

\* ON DELETE CASCADE of organization_members.org_id
Cascade(org_id) == {m \in organization_members : m.org_id # org_id}

\* -------------------------------------------------------------- requests
NoReq == [op |-> "none", org_id |-> 0, name |-> "", user_id |-> "",
          role |-> "", acting |-> "", now |-> 0]

Request(op, org_id, name, user_id, role, acting, now) ==
  [op |-> op, org_id |-> org_id, name |-> name, user_id |-> user_id,
   role |-> role, acting |-> acting, now |-> now]

Requests(op, now) ==
  CASE op = "create_organization" ->
         {Request(op, 0, n, "", "", u, now) : n \in Names, u \in Users}
    [] op = "list_organizations" ->
         {Request(op, 0, "", "", "", u, now) : u \in Users}
    [] op \in {"get_organization", "delete_organization"} ->
         {Request(op, x, "", "", "", u, now) : x \in OrgIds, u \in Users}
    [] op \in {"add_member", "update_member"} ->
         {Request(op, x[1], "", x[2], x[3], u, now) :
            x \in OrgIds \X Users \X Roles, u \in Users}
    [] op = "remove_member" ->
         {Request(op, x, "", t, "", u, now) :
            x \in OrgIds, t \in Users, u \in Users}

\* a fresh session: no organization, no membership, no membership list
NoneLoaded == [org |-> {}, membership |-> {}, memberships |-> {}]

NoResponse == [req |-> NoReq, res |-> NoResult]

InFlight(p) == pc[p] # "idle"

\* create requests that will still call uuid4
PendingCreates == {q \in Procs : pc[q] = "create_commit"}

Init ==
  /\ organizations = {}
  /\ organization_members = {}
  /\ uuids = 0
  /\ clock = 0
  /\ pc = [p \in Procs |-> "idle"]
  /\ req = [p \in Procs |-> NoReq]
  /\ loaded = [p \in Procs |-> NoneLoaded]
  /\ response = NoResponse

\* a route of api/organizations.py is called with a new session, which the
\* first free slot holds; the handler's first statement opens the transaction
Begin(p) ==
  /\ response = NoResponse
  /\ ~InFlight(p)
  /\ \A q \in Procs : q < p => InFlight(q)
  /\ clock < MaxClock
  /\ clock' = clock + 1

\* the request of slot p is about to execute statement s
At(p, s) == response = NoResponse /\ pc[p] = s

\* request r of slot p goes on to statement s, its session holding l
Goto(p, r, s, l) ==
  /\ pc' = [pc EXCEPT ![p] = s]
  /\ req' = [req EXCEPT ![p] = r]
  /\ loaded' = [loaded EXCEPT ![p] = l]
  /\ response' = NoResponse

\* request r of slot p ends: res is sent and the session is closed
Respond(p, r, res) ==
  /\ pc' = [pc EXCEPT ![p] = "idle"]
  /\ req' = [req EXCEPT ![p] = NoReq]
  /\ loaded' = [loaded EXCEPT ![p] = NoneLoaded]
  /\ response' = [req |-> r, res |-> res]

\* ---------------------------------------------------- create_organization
OrganizationWithMembers(org, members) ==
  [status |-> 200, org |-> {org}, members |-> members, views |-> <<>>]

\* the select finds no row: it compares another column than the name
existing_Unmatched(name) == {}

\* existing = select(Organization).where(name == request.name)
existing(name) == Scalar({o \in organizations : o.name = name})

\* the founder enrolled as staff
FounderRow_Staff(org_id, creator_id, now) ==
  MemberRow(org_id, creator_id, "staff", creator_id, now)

FounderRow(org_id, creator_id, now) ==
  MemberRow(org_id, creator_id, "admin", creator_id, now)

CreateSelect(p) ==
  /\ Begin(p)
  /\ uuids + Cardinality(PendingCreates) < MaxOrgs
  /\ \E r \in Requests("create_organization", clock + 1) :
       IF existing(r.name) # {}
       THEN Respond(p, r, HTTPException(409))
       ELSE Goto(p, r, "create_commit", NoneLoaded)
  /\ UNCHANGED <<organizations, organization_members, uuids>>

\* org and membership are added to the session and flushed by commit();
\* an identifier whose row was never stored is never seen again
CreateCommit(p) ==
  /\ At(p, "create_commit")
  /\ LET r == req[p]
         org == OrgRow(uuids + 1, r.name, r.acting, r.now)
         membership == FounderRow(org.org_id, r.acting, r.now)
     IN IF /\ OrgPkOk(org)
           /\ OrgNameUniqueOk(org)
           /\ MemberPkOk(membership, organization_members)
           /\ MemberFkOk(membership, organizations \cup {org})
        THEN /\ organizations' = organizations \cup {org}
             /\ organization_members' = organization_members \cup {membership}
             /\ uuids' = uuids + 1
             /\ Goto(p, r, "create_refresh_org",
                     [org |-> {org}, membership |-> {membership},
                      memberships |-> {}])
        ELSE /\ Respond(p, r, ServerError)
             /\ UNCHANGED <<organizations, organization_members, uuids>>
  /\ UNCHANGED clock

\* refresh(org): the row is read again; a row that is gone is an error
CreateRefreshOrg(p) ==
  /\ At(p, "create_refresh_org")
  /\ LET id == (CHOOSE o \in loaded[p].org : TRUE).org_id
         org == GetOrg(id)
     IN IF org = {}
        THEN Respond(p, req[p], ServerError)
        ELSE Goto(p, req[p], "create_refresh_membership",
                  [loaded[p] EXCEPT !.org = org])
  /\ UNCHANGED <<organizations, organization_members, uuids, clock>>

\* refresh(membership), then the OrganizationWithMembers is returned
CreateRefreshMembership(p) ==
  /\ At(p, "create_refresh_membership")
  /\ LET org == CHOOSE o \in loaded[p].org : TRUE
         membership == get_membership(org.org_id, req[p].acting)
     IN IF membership = {}
        THEN Respond(p, req[p], ServerError)
        ELSE Respond(p, req[p], OrganizationWithMembers(org, Rows(membership)))
  /\ UNCHANGED <<organizations, organization_members, uuids, clock>>

\* ------------------------------------------------------ list_organizations
OrganizationView(org, role) == [org |-> org, role |-> role]

ListResult(views) ==
  [status |-> 200, org |-> {}, members |-> <<>>, views |-> views]

\* the views of the memberships ms whose organization is in org_map
RECURSIVE Views(_, _)
Views(ms, orgs) ==
  IF ms = <<>> THEN <<>>
  ELSE LET m == Head(ms)
           org_map == {o \in orgs : o.org_id = m.org_id}
       IN (IF org_map # {}
           THEN <<OrganizationView(CHOOSE o \in org_map : TRUE, m.role)>>
           ELSE <<>>) \o Views(Tail(ms), orgs)

\* the select without its where clause
MembershipsOf_All(user_id) == organization_members

\* the rows select(OrganizationMember).where(user_id == user_id) returns
MembershipsOf(user_id) == {m \in organization_members : m.user_id = user_id}

ListMemberships(p) ==
  /\ Begin(p)
  /\ \E r \in Requests("list_organizations", clock + 1) :
       LET memberships == MembershipsOf(r.acting)
       IN IF memberships = {}
          THEN Respond(p, r, ListResult(<<>>))
          ELSE Goto(p, r, "list_orgs",
                    [NoneLoaded EXCEPT !.memberships = memberships])
  /\ UNCHANGED <<organizations, organization_members, uuids>>

\* organizations = select(Organization).where(org_id.in_(org_ids))
ListOrgs(p) ==
  /\ At(p, "list_orgs")
  /\ LET memberships == loaded[p].memberships
         org_ids == {m.org_id : m \in memberships}
         orgs == {o \in organizations : o.org_id \in org_ids}
     IN Respond(p, req[p], ListResult(Views(Rows(memberships), orgs)))
  /\ UNCHANGED <<organizations, organization_members, uuids, clock>>

\* -------------------------------------------------------- get_organization
\* get_organization with the existence check before the membership check
GetMembership_OrgFirst(p) ==
  /\ Begin(p)
  /\ \E r \in Requests("get_organization", clock + 1) :
       IF GetOrg(r.org_id) = {}
       THEN Respond(p, r, HTTPException(404))
       ELSE IF get_membership(r.org_id, r.acting) = {}
       THEN Respond(p, r, HTTPException(403))
       ELSE Goto(p, r, "get_org", NoneLoaded)
  /\ UNCHANGED <<organizations, organization_members, uuids>>

GetMembership(p) ==
  /\ Begin(p)
  /\ \E r \in Requests("get_organization", clock + 1) :
       LET membership == get_membership(r.org_id, r.acting)
       IN IF membership = {}
          THEN Respond(p, r, HTTPException(403))
          ELSE Goto(p, r, "get_org", NoneLoaded)
  /\ UNCHANGED <<organizations, organization_members, uuids>>

GetOrgStep(p) ==
  /\ At(p, "get_org")
  /\ LET org == GetOrg(req[p].org_id)
     IN IF org = {}
        THEN Respond(p, req[p], HTTPException(404))
        ELSE Goto(p, req[p], "get_members", [loaded[p] EXCEPT !.org = org])
  /\ UNCHANGED <<organizations, organization_members, uuids, clock>>

\* the rows select(OrganizationMember).where(org_id == org_id) returns
MembersOf(org_id) == {m \in organization_members : m.org_id = org_id}

GetMembers(p) ==
  /\ At(p, "get_members")
  /\ LET members == MembersOf(req[p].org_id)
         org == CHOOSE o \in loaded[p].org : TRUE
     IN Respond(p, req[p], OrganizationWithMembers(org, Rows(members)))
  /\ UNCHANGED <<organizations, organization_members, uuids, clock>>

\* -------------------------------------------------------------- add_member
OrganizationMember(m) ==
  [status |-> 200, org |-> {}, members |-> <<m>>, views |-> <<>>]

\* add_member with the pre-check of the target before the admin check
AddAdmin_TargetFirst(p) ==
  /\ Begin(p)
  /\ \E r \in Requests("add_member", clock + 1) :
       IF get_membership(r.org_id, r.user_id) # {}
       THEN Respond(p, r, HTTPException(409))
       ELSE IF require_admin(r.org_id, r.acting)
       THEN Goto(p, r, "add_target", NoneLoaded)
       ELSE Respond(p, r, HTTPException(403))
  /\ UNCHANGED <<organizations, organization_members, uuids>>

AddAdmin(p) ==
  /\ Begin(p)
  /\ \E r \in Requests("add_member", clock + 1) :
       IF require_admin(r.org_id, r.acting)
       THEN Goto(p, r, "add_target", NoneLoaded)
       ELSE Respond(p, r, HTTPException(403))
  /\ UNCHANGED <<organizations, organization_members, uuids>>

\* add_member without its pre-check of the target
AddTarget_NoCheck(p) ==
  /\ At(p, "add_target")
  /\ Goto(p, req[p], "add_commit", loaded[p])
  /\ UNCHANGED <<organizations, organization_members, uuids, clock>>

AddTarget(p) ==
  /\ At(p, "add_target")
  /\ LET target_membership == get_membership(req[p].org_id, req[p].user_id)
     IN IF target_membership # {}
        THEN Respond(p, req[p], HTTPException(409))
        ELSE Goto(p, req[p], "add_commit", loaded[p])
  /\ UNCHANGED <<organizations, organization_members, uuids, clock>>

\* the INSERT is flushed by commit(); the store rejects a duplicate key or a
\* missing organization with an IntegrityError, which no handler catches
AddCommit(p) ==
  /\ At(p, "add_commit")
  /\ LET r == req[p]
         member == MemberRow(r.org_id, r.user_id, r.role, r.acting, r.now)
     IN IF /\ MemberPkOk(member, organization_members)
           /\ MemberFkOk(member, organizations)
        THEN /\ organization_members' = organization_members \cup {member}
             /\ Goto(p, r, "add_refresh", loaded[p])
        ELSE /\ Respond(p, r, ServerError)
             /\ UNCHANGED organization_members
  /\ UNCHANGED <<organizations, uuids, clock>>

AddRefresh(p) ==
  /\ At(p, "add_refresh")
  /\ LET member == get_membership(req[p].org_id, req[p].user_id)
     IN IF member = {}
        THEN Respond(p, req[p], ServerError)
        ELSE Respond(p, req[p], OrganizationMember(CHOOSE m \in member : TRUE))
  /\ UNCHANGED <<organizations, organization_members, uuids, clock>>

\* ----------------------------------------------------------- update_member
\* the acting user's row stays in the session's identity map
UpdAdmin(p) ==
  /\ Begin(p)
  /\ \E r \in Requests("update_member", clock + 1) :
       IF require_admin(r.org_id, r.acting)
       THEN Goto(p, r, "upd_target",
                 [NoneLoaded EXCEPT
                    !.membership = get_membership(r.org_id, r.acting)])
       ELSE Respond(p, r, HTTPException(403))
  /\ UNCHANGED <<organizations, organization_members, uuids>>

\* a row whose key is already in the identity map yields the object held
\* update_member refusing to change the role of the only admin
UpdTarget_LastAdminGuard(p) ==
  /\ At(p, "upd_target")
  /\ LET r == req[p]
         membership == get_membership(r.org_id, r.user_id)
         admins == {m \in organization_members :
                      m.org_id = r.org_id /\ m.role = "admin"}
     IN IF membership = {}
        THEN Respond(p, r, HTTPException(404))
        ELSE IF membership = admins /\ r.role # "admin"
        THEN Respond(p, r, HTTPException(409))
        ELSE Goto(p, r, "upd_commit",
                  [loaded[p] EXCEPT !.membership =
                     IF r.user_id = r.acting THEN @ ELSE membership])
  /\ UNCHANGED <<organizations, organization_members, uuids, clock>>

UpdTarget(p) ==
  /\ At(p, "upd_target")
  /\ LET r == req[p]
         membership == get_membership(r.org_id, r.user_id)
     IN IF membership = {}
        THEN Respond(p, r, HTTPException(404))
        ELSE Goto(p, r, "upd_commit",
                  [loaded[p] EXCEPT !.membership =
                     IF r.user_id = r.acting THEN @ ELSE membership])
  /\ UNCHANGED <<organizations, organization_members, uuids, clock>>

\* the UPDATE with WHERE org_id only: every row of the organization
SetRole_WholeOrg(org_id, user_id, role) ==
  {IF m.org_id = org_id
   THEN [m EXCEPT !.role = role] ELSE m : m \in organization_members}

\* the rows after UPDATE organization_members SET role WHERE (org_id, user_id)
SetRole(org_id, user_id, role) ==
  {IF m.org_id = org_id /\ m.user_id = user_id
   THEN [m EXCEPT !.role = role] ELSE m : m \in organization_members}

\* membership.role = request.role; commit().  An attribute set to the value
\* it was loaded with emits no UPDATE; an UPDATE that matches no row raises
UpdCommit(p) ==
  /\ At(p, "upd_commit")
  /\ LET r == req[p]
         membership == CHOOSE m \in loaded[p].membership : TRUE
     IN IF membership.role = r.role
        THEN /\ Goto(p, r, "upd_refresh", loaded[p])
             /\ UNCHANGED organization_members
        ELSE IF get_membership(r.org_id, r.user_id) = {}
        THEN /\ Respond(p, r, ServerError)
             /\ UNCHANGED organization_members
        ELSE /\ organization_members' = SetRole(r.org_id, r.user_id, r.role)
             /\ Goto(p, r, "upd_refresh", loaded[p])
  /\ UNCHANGED <<organizations, uuids, clock>>

UpdRefresh(p) ==
  /\ At(p, "upd_refresh")
  /\ LET membership == get_membership(req[p].org_id, req[p].user_id)
     IN IF membership = {}
        THEN Respond(p, req[p], ServerError)
        ELSE Respond(p, req[p],
                     OrganizationMember(CHOOSE m \in membership : TRUE))
  /\ UNCHANGED <<organizations, organization_members, uuids, clock>>

\* ----------------------------------------------------------- remove_member
\* the route declares no status code: None is returned with 200
NullBody == [status |-> 200, org |-> {}, members |-> <<>>, views |-> <<>>]

RmAdmin(p) ==
  /\ Begin(p)
  /\ \E r \in Requests("remove_member", clock + 1) :
       IF require_admin(r.org_id, r.acting)
       THEN Goto(p, r, "rm_target", NoneLoaded)
       ELSE Respond(p, r, HTTPException(403))
  /\ UNCHANGED <<organizations, organization_members, uuids>>

RmTarget(p) ==
  /\ At(p, "rm_target")
  /\ LET membership == get_membership(req[p].org_id, req[p].user_id)
     IN IF membership = {}
        THEN Respond(p, req[p], HTTPException(404))
        ELSE Goto(p, req[p], "rm_commit", loaded[p])
  /\ UNCHANGED <<organizations, organization_members, uuids, clock>>

\* the DELETE with WHERE user_id only: the user's rows in every organization
RmCommit_AnyOrg(p) ==
  /\ At(p, "rm_commit")
  /\ organization_members' =
       {m \in organization_members : m.user_id # req[p].user_id}
  /\ Respond(p, req[p], NullBody)
  /\ UNCHANGED <<organizations, uuids, clock>>

\* session.delete(membership); commit(): DELETE WHERE (org_id, user_id)
RmCommit(p) ==
  /\ At(p, "rm_commit")
  /\ organization_members' =
       {m \in organization_members :
          ~(m.org_id = req[p].org_id /\ m.user_id = req[p].user_id)}
  /\ Respond(p, req[p], NullBody)
  /\ UNCHANGED <<organizations, uuids, clock>>

\* ----------------------------------------------------- delete_organization
NoContent == [status |-> 204, org |-> {}, members |-> <<>>, views |-> <<>>]

DelGet(p) ==
  /\ Begin(p)
  /\ \E r \in Requests("delete_organization", clock + 1) :
       LET org == GetOrg(r.org_id)
       IN IF org = {}
          THEN Respond(p, r, HTTPException(404))
          ELSE Goto(p, r, "del_admin", NoneLoaded)
  /\ UNCHANGED <<organizations, organization_members, uuids>>

\* delete_organization issuing its DELETE before the admin check
DelAdmin_DeleteFirst(p) ==
  /\ At(p, "del_admin")
  /\ organizations' = {o \in organizations : o.org_id # req[p].org_id}
  /\ organization_members' = Cascade(req[p].org_id)
  /\ IF require_admin(req[p].org_id, req[p].acting)
     THEN Respond(p, req[p], NoContent)
     ELSE Respond(p, req[p], HTTPException(403))
  /\ UNCHANGED <<uuids, clock>>

DelAdmin(p) ==
  /\ At(p, "del_admin")
  /\ IF require_admin(req[p].org_id, req[p].acting)
     THEN Goto(p, req[p], "del_commit", loaded[p])
     ELSE Respond(p, req[p], HTTPException(403))
  /\ UNCHANGED <<organizations, organization_members, uuids, clock>>

\* session.delete(org); commit(): the membership rows go with the row
DelCommit(p) ==
  /\ At(p, "del_commit")
  /\ organizations' = {o \in organizations : o.org_id # req[p].org_id}
  /\ organization_members' = Cascade(req[p].org_id)
  /\ Respond(p, req[p], NoContent)
  /\ UNCHANGED <<uuids, clock>>

\* ------------------------------------------------------ the specifications
\* the response has reached the caller
Sent ==
  /\ response # NoResponse
  /\ response' = NoResponse
  /\ UNCHANGED <<organizations, organization_members, uuids, clock, pc, req,
                 loaded>>

\* the first statement of a request in slot p
BeginStep(p) ==
  \/ CreateSelect(p) \/ ListMemberships(p) \/ GetMembership(p)
  \/ AddAdmin(p) \/ UpdAdmin(p) \/ RmAdmin(p) \/ DelGet(p)

\* a later statement of the request in slot p
LaterStep(p) ==
  \/ CreateCommit(p) \/ CreateRefreshOrg(p) \/ CreateRefreshMembership(p)
  \/ ListOrgs(p)
  \/ GetOrgStep(p) \/ GetMembers(p)
  \/ AddTarget(p) \/ AddCommit(p) \/ AddRefresh(p)
  \/ UpdTarget(p) \/ UpdCommit(p) \/ UpdRefresh(p)
  \/ RmTarget(p) \/ RmCommit(p)
  \/ DelAdmin(p) \/ DelCommit(p)

\* requests are served concurrently
Next == Sent \/ \E p \in Procs : BeginStep(p) \/ LaterStep(p)

Spec == Init /\ [][Next]_vars

\* no request is in flight
Alone == \A q \in Procs : ~InFlight(q)

\* requests are served one after the other: a request begins only when no
\* other is in flight, and so runs alone to its response
NextSeq ==
  \/ Sent
  \/ \E p \in Procs :
       \/ Alone /\ CreateSelect(p)
       \/ Alone /\ ListMemberships(p)
       \/ Alone /\ GetMembership(p)
       \/ Alone /\ AddAdmin(p)
       \/ Alone /\ UpdAdmin(p)
       \/ Alone /\ RmAdmin(p)
       \/ Alone /\ DelGet(p)
       \/ LaterStep(p)

SpecSeq == Init /\ [][NextSeq]_vars

\* ------------------------------------------------------------- vocabulary
\* the response being sent answers a request of operation op
Done(op) == response.req.op = op

Status == response.res.status

\* a request executes its first statement in this step
Begins == clock' # clock

\* the request that does
Begun ==
  IF response'.req.now = clock' THEN response'.req
  ELSE CHOOSE r \in {req'[p] : p \in Procs} : r.now = clock'

\* a request of one of the operations ops does
BeginsOp(ops) == Begins /\ Begun.op \in ops

\* request r was answered with res in this step
Answered(r, res) == response' = [req |-> r, res |-> res]

\* slot p executes the statement at s in this step
Executes(p, s) == pc[p] = s /\ pc'[p] # s

\* the organization of this identifier was created and then deleted
Gone(org_id) == org_id \in 1..uuids /\ GetOrg(org_id) = {}

Tables == <<organizations, organization_members>>

\* ---------------------------------------------------------------------- C1
\* C1 as stated: once organization X is deleted no membership row of X is
\* left, and every GetOrganization(X, u) that begins afterwards is answered
\* NotFound (404).
C1_AsClaimed ==
  [][BeginsOp({"get_organization"}) /\ Gone(Begun.org_id)
     => Answered(Begun, HTTPException(404))]_vars

\* C1 amended: once organization X is deleted no membership row of X is
\* left, and every GetOrganization(X, u) that begins afterwards is answered
\* Forbidden (403), the membership check coming first.
C1_DeleteCascades ==
  /\ [](\A x \in OrgIds : Gone(x) => MembersOf(x) = {})
  /\ [][BeginsOp({"get_organization"}) /\ Gone(Begun.org_id)
        => Answered(Begun, HTTPException(403))]_vars

\* the only organization ever created was deleted, and GetOrganization on it
\* has just been refused
C1_Witness ==
  /\ uuids = 1 /\ Gone(1)
  /\ Done("get_organization") /\ response.req.org_id = 1
  /\ Status = 403
\* the elements of a list
Elems(s) == {s[i] : i \in 1..Len(s)}

\* the rows of the key (org_id, user_id) in a membership table
RowsOf(members, org_id, user_id) ==
  {m \in members : m.org_id = org_id /\ m.user_id = user_id}

MemberOps == {"add_member", "update_member", "remove_member"}

\* ---------------------------------------------------------------------- C2
\* C2: an AddMember that finds the target's row already there, at its own
\* check or when its INSERT meets the row a concurrent AddMember committed,
\* is answered Conflict (409), and exactly one row of (X, target) exists.
C2_AsClaimed ==
  [][\A p \in Procs :
       /\ Executes(p, "add_target") \/ Executes(p, "add_commit")
       /\ get_membership(req[p].org_id, req[p].user_id) # {}
       => /\ response'.res.status = 409
          /\ Cardinality(RowsOf(organization_members', req[p].org_id,
                                req[p].user_id)) = 1]_vars

\* ---------------------------------------------------------------------- C3
\* C3: GetOrganization, AddMember, UpdateMember and RemoveMember on X by a
\* user with no membership row in X are answered Forbidden (403), whatever
\* the target and the role.
C3_NonMemberForbidden ==
  [][/\ BeginsOp(MemberOps \cup {"get_organization"})
     /\ get_membership(Begun.org_id, Begun.acting) = {}
     => Answered(Begun, HTTPException(403))]_vars

\* a user outside an existing organization has just been refused the
\* addition of a third user
C3_Witness ==
  /\ Done("add_member") /\ Status = 403
  /\ GetOrg(response.req.org_id) # {}
  /\ get_membership(response.req.org_id, response.req.acting) = {}
  /\ response.req.user_id # response.req.acting
  /\ get_membership(response.req.org_id, response.req.user_id) = {}

\* ---------------------------------------------------------------------- C4
NonAdminMember(org_id, user_id) ==
  \E m \in get_membership(org_id, user_id) : m.role # "admin"

\* C4: for a member of X whose role is not admin, AddMember, UpdateMember
\* and RemoveMember on X are answered Forbidden (403), and GetOrganization
\* is answered with the organization row and all its membership rows
\* (requests served one after the other: SpecSeq).
C4_NonAdminMember ==
  /\ [](Done("get_organization")
        /\ NonAdminMember(response.req.org_id, response.req.acting)
        => /\ Status = 200
           /\ response.res.org = GetOrg(response.req.org_id)
           /\ response.res.org # {}
           /\ Elems(response.res.members) = MembersOf(response.req.org_id)
           /\ Len(response.res.members) =
                Cardinality(MembersOf(response.req.org_id)))
  /\ [][BeginsOp(MemberOps) /\ NonAdminMember(Begun.org_id, Begun.acting)
        => Answered(Begun, HTTPException(403))]_vars

\* a staff member has just been refused the promotion of a member
C4_Witness ==
  /\ Done("update_member") /\ Status = 403
  /\ response.req.role = "admin"
  /\ NonAdminMember(response.req.org_id, response.req.acting)

\* ---------------------------------------------------------------------- C5
\* C5: when the INSERT, UPDATE or DELETE of AddMember, UpdateMember or
\* RemoveMember changes the membership rows of X, the acting user holds
\* role admin in X in the rows the change is applied to.
C5_AsClaimed ==
  [][\A p \in Procs :
       /\ \/ Executes(p, "add_commit")
          \/ Executes(p, "upd_commit")
          \/ Executes(p, "rm_commit")
       /\ organization_members' # organization_members
       => require_admin(req[p].org_id, req[p].acting)]_vars
\* ---------------------------------------------------------------------- C6
\* C6: CreateOrganization(n, c) when a row of name n exists is answered
\* Conflict (409); it adds no organization row and no membership row, and
\* exactly one organization row has name n afterwards.
C6_DuplicateName ==
  [][/\ BeginsOp({"create_organization"})
     /\ \E o \in organizations : o.name = Begun.name
     => /\ Answered(Begun, HTTPException(409))
        /\ UNCHANGED Tables
        /\ Cardinality({o \in organizations' : o.name = Begun.name}) = 1]_vars

\* a user other than the creator has just been refused a name in use
C6_Witness ==
  /\ Done("create_organization") /\ Status = 409
  /\ \E o \in organizations :
       o.name = response.req.name /\ o.created_by # response.req.acting

\* ---------------------------------------------------------------------- C7
\* C7: the commit of CreateOrganization(name, c) leaves the new organization
\* with exactly one membership row, (c, admin, invited_by c), and the
\* response carries the new organization row and exactly that row
\* (requests served one after the other: SpecSeq).
C7_FounderOnly ==
  /\ [](Done("create_organization") /\ Status = 200
        => \E o \in response.res.org :
             /\ o \in organizations
             /\ o.name = response.req.name
             /\ o.created_by = response.req.acting
             /\ Cardinality(MembersOf(o.org_id)) = 1
             /\ \A m \in MembersOf(o.org_id) :
                  /\ m.user_id = response.req.acting
                  /\ m.role = "admin"
                  /\ m.invited_by = response.req.acting
                  /\ response.res.members = <<m>>)
  /\ [][\A p \in Procs :
          Executes(p, "create_commit") /\ organizations' # organizations
          => \E o \in organizations' \ organizations :
               {m \in organization_members' : m.org_id = o.org_id} =
                 {MemberRow(o.org_id, req[p].acting, "admin", req[p].acting,
                            req[p].now)}]_vars

\* a second organization has just been created by another founder
C7_Witness ==
  /\ Done("create_organization") /\ Status = 200
  /\ Len(response.res.members) = 1
  /\ Cardinality(organizations) = 2
  /\ \E o \in organizations : o.created_by # response.req.acting

\* ---------------------------------------------------------------------- C8
\* C8: an AddMember by an admin of X whose target already has a row in X is
\* answered Conflict (409) and changes no row: (X, target) keeps its one
\* row, with the role and invited_by it had.
C8_AddTwice ==
  [][\A p \in Procs :
       /\ Executes(p, "add_target")
       /\ get_membership(req[p].org_id, req[p].user_id) # {}
       => /\ Answered(req[p], HTTPException(409))
          /\ organization_members' = organization_members
          /\ Cardinality(RowsOf(organization_members', req[p].org_id,
                                req[p].user_id)) = 1]_vars

\* a member added earlier with one role has just been refused a second
\* addition with another role, and keeps the row of the first
C8_Witness ==
  /\ Done("add_member") /\ Status = 409
  /\ \E m \in organization_members :
       /\ m.org_id = response.req.org_id
       /\ m.user_id = response.req.user_id
       /\ m.user_id # m.invited_by
       /\ m.role # response.req.role
       /\ m.created_at < response.req.now

\* ---------------------------------------------------------------------- C9
IsAdmin(org_id, user_id) ==
  \E m \in organization_members :
    m.org_id = org_id /\ m.user_id = user_id /\ m.role = "admin"

\* C9: on an identifier with no organization row GetOrganization is
\* answered Forbidden (403) and DeleteOrganization NotFound (404), whoever
\* calls; DeleteOrganization of an existing organization by a caller who is
\* not its admin is answered Forbidden (403).
C9_CheckOrder ==
  [][/\ BeginsOp({"get_organization"}) /\ GetOrg(Begun.org_id) = {}
          => Answered(Begun, HTTPException(403))
     /\ BeginsOp({"delete_organization"}) /\ GetOrg(Begun.org_id) = {}
          => Answered(Begun, HTTPException(404))
     /\ \A p \in Procs :
          Executes(p, "del_admin") /\ ~IsAdmin(req[p].org_id, req[p].acting)
          => Answered(req[p], HTTPException(403)) /\ UNCHANGED Tables]_vars

\* a deletion of an organization that never existed has just been answered
\* NotFound while another organization exists
C9_Witness ==
  /\ Done("delete_organization") /\ Status = 404
  /\ GetOrg(response.req.org_id) = {}
  /\ organizations # {}

\* --------------------------------------------------------------------- C10
\* the positions of the list views that show organization org_id
Entries(views, org_id) ==
  {i \in 1..Len(views) : views[i].org.org_id = org_id}

\* C10: ListOrganizations(u) returns one entry for each organization in
\* which u has a membership row, carrying the organization row and u's role
\* in it, and no other entry; it changes no row (requests served one after
\* the other: SpecSeq).
C10_ListOrganizations ==
  /\ [](Done("list_organizations")
        => /\ Status = 200
           /\ \A x \in OrgIds :
                LET mine == RowsOf(organization_members, x, response.req.acting)
                    shown == Entries(response.res.views, x)
                IN /\ Cardinality(shown) = Cardinality(mine)
                   /\ \A i \in shown : \A m \in mine :
                        /\ response.res.views[i].role = m.role
                        /\ response.res.views[i].org \in organizations
           /\ \A i \in 1..Len(response.res.views) :
                response.res.views[i].org.org_id \in OrgIds)
  /\ [][BeginsOp({"list_organizations"})
        \/ (\E p \in Procs : Executes(p, "list_orgs"))
        => UNCHANGED Tables]_vars

\* a member of two organizations has just listed both
C10_Witness ==
  /\ Done("list_organizations")
  /\ Len(response.res.views) = 2
  /\ response.res.views[1].org # response.res.views[2].org

\* --------------------------------------------------------------------- C11
\* the statements whose commit() writes, and the refreshes that follow one
CommitStmts ==
  {"create_commit", "add_commit", "upd_commit", "rm_commit", "del_commit"}

RefreshStmts ==
  {"create_refresh_org", "create_refresh_membership", "add_refresh",
   "upd_refresh"}

\* the request of slot p has executed no commit()
Unwritten(p) == pc[p] \notin RefreshStmts

\* slot p executes its statement in this step
Steps(p) == InFlight(p) /\ Executes(p, pc[p])

\* C11: a request answered Forbidden (403), NotFound (404) or Conflict
\* (409), or refused by the store at its commit (500), has written nothing:
\* rows change only in a commit that succeeds, the step that answers the
\* error changes no row, and no such answer follows a commit of the request;
\* a CreateOrganization that fails leaves no organization row and no
\* membership row.
C11_NoPartialSuccess ==
  [][/\ Tables' # Tables
          => \E p \in Procs :
               /\ pc[p] \in CommitStmts /\ Steps(p)
               /\ pc'[p] \in RefreshStmts \/ response'.res.status \in {200, 204}
     /\ response'.res.status \in {403, 404, 409}
          => /\ UNCHANGED Tables
             /\ Begins \/ \E p \in Procs : Steps(p) /\ Unwritten(p)
     /\ \A p \in Procs :
          Steps(p) /\ pc[p] \in CommitStmts /\ response'.res.status = 500
          => UNCHANGED Tables
     /\ /\ response'.req.op = "create_organization"
        /\ response'.res.status # 200
        /\ Begins \/ \E p \in Procs : Steps(p) /\ pc[p] = "create_commit"
        => /\ UNCHANGED Tables
           /\ \A o \in organizations' : o.created_at # response'.req.now
           /\ \A m \in organization_members' :
                m.created_at # response'.req.now]_vars

\* a CreateOrganization has just been refused by the unique constraint at its
\* commit, the name having been taken by a concurrent request after its
\* pre-check; only the winner's rows exist
C11_Witness ==
  /\ Done("create_organization") /\ Status = 500
  /\ Cardinality(organizations) = 1
  /\ Cardinality(organization_members) = 1
  /\ \E o \in organizations :
       o.name = response.req.name /\ o.created_at # response.req.now

\* --------------------------------------------------------------------- C12
\* the membership rows of organization org_id whose role is admin
Admins(org_id) == {m \in MembersOf(org_id) : m.role = "admin"}

\* C12: UpdateMember and RemoveMember by an admin of X on a target that has
\* a row in X go through whoever the target is, the acting admin and the
\* only admin included: no statement refuses them, the commit leaves the
\* target with the new role (or without a row) and the answer is 200; an
\* organization without an admin row is thus reachable
\* (requests served one after the other: SpecSeq).
C12_NoLastAdminGuard ==
  [][/\ /\ BeginsOp({"update_member", "remove_member"})
        /\ IsAdmin(Begun.org_id, Begun.acting)
        /\ get_membership(Begun.org_id, Begun.user_id) # {}
        => \E p \in Procs :
             /\ req'[p] = Begun
             /\ pc'[p] \in {"upd_target", "rm_target"}
     /\ \A p \in Procs :
          LET r == req[p]
              now == RowsOf(organization_members, r.org_id, r.user_id)
              after == RowsOf(organization_members', r.org_id, r.user_id)
          IN /\ Executes(p, "upd_target") /\ now # {}
                  => pc'[p] = "upd_commit"
             /\ Executes(p, "rm_target") /\ now # {}
                  => pc'[p] = "rm_commit"
             /\ Executes(p, "upd_commit")
                  => /\ pc'[p] = "upd_refresh"
                     /\ after = {[m EXCEPT !.role = r.role] : m \in now}
                     /\ after # {}
             /\ Executes(p, "upd_refresh")
                  => /\ now # {}
                     /\ \A m \in now : Answered(r, OrganizationMember(m))
             /\ Executes(p, "rm_commit")
                  => after = {} /\ Answered(r, NullBody)]_vars

\* the founder, the only admin, has just demoted themself: the organization
\* exists, has a member and has no admin
C12_Witness ==
  /\ Done("update_member") /\ Status = 200
  /\ response.req.user_id = response.req.acting
  /\ GetOrg(response.req.org_id) # {}
  /\ MembersOf(response.req.org_id) # {}
  /\ Admins(response.req.org_id) = {}

\* --------------------------------------------------------------------- C13
TargetStmts == {"add_target", "upd_target", "rm_target"}

\* C13: AddMember, UpdateMember and RemoveMember on X by a caller who is not
\* an admin of X are answered Forbidden (403) by their first statement,
\* whether or not the target has a row in X; Conflict (409) and NotFound
\* (404) come only from the check of the target, which a request reaches
\* only after its caller was found to be an admin of X.
C13_AdminCheckFirst ==
  [][/\ BeginsOp(MemberOps)
          => /\ response'.res.status \notin {404, 409}
             /\ IF IsAdmin(Begun.org_id, Begun.acting)
                THEN \E p \in Procs :
                       req'[p] = Begun /\ pc'[p] \in TargetStmts
                ELSE Answered(Begun, HTTPException(403))
     /\ \A p \in Procs :
          /\ Steps(p) /\ req[p].op \in MemberOps
          /\ response'.res.status \in {404, 409}
          => pc[p] \in TargetStmts
     /\ \A p \in Procs :
          pc'[p] \in TargetStmts /\ pc[p] # pc'[p]
          => Begins /\ Begun = req'[p]
               /\ IsAdmin(Begun.org_id, Begun.acting)]_vars

\* a staff member has just been refused the addition of a user who is
\* already a member
C13_Witness ==
  /\ Done("add_member") /\ Status = 403
  /\ NonAdminMember(response.req.org_id, response.req.acting)
  /\ get_membership(response.req.org_id, response.req.user_id) # {}
  /\ response.req.user_id # response.req.acting

\* --------------------------------------------------------------------- C14
\* the key of a membership row
Key(m) == <<m.org_id, m.user_id>>

\* C14: UpdateMember(X, t, role) writes only in its commit, and there only
\* the role of the row (X, t): that row keeps its invited_by and created_at,
\* every other membership row and every organization row is as it was, and
\* the membership keys are the same.
C14_UpdateFrame ==
  [][/\ BeginsOp({"update_member"}) => UNCHANGED Tables
     /\ \A p \in Procs :
          /\ Executes(p, "upd_target") \/ Executes(p, "upd_refresh")
               => UNCHANGED Tables
          /\ Executes(p, "upd_commit")
               => /\ UNCHANGED organizations
                  /\ {Key(m) : m \in organization_members'} =
                       {Key(m) : m \in organization_members}
                  /\ Cardinality(organization_members') =
                       Cardinality(organization_members)
                  /\ \A m \in organization_members :
                       IF Key(m) = <<req[p].org_id, req[p].user_id>>
                       THEN \/ m \in organization_members'
                            \/ [m EXCEPT !.role = req[p].role]
                                 \in organization_members'
                       ELSE m \in organization_members']_vars

\* the founder has just been made staff by an admin they had added: their
\* row carries the new role with the invited_by and created_at of the
\* creation, and the other admin's row is there
C14_Witness ==
  /\ Done("update_member") /\ Status = 200
  /\ response.req.user_id # response.req.acting
  /\ response.req.role = "staff"
  /\ \E m \in organization_members :
       /\ Key(m) = <<response.req.org_id, response.req.user_id>>
       /\ m.role = "staff"
       /\ m.invited_by = m.user_id
       /\ m.created_at < response.req.now
  /\ IsAdmin(response.req.org_id, response.req.acting)

\* --------------------------------------------------------------------- C15
\* C15: in every state, whatever the interleaving of the requests, every
\* membership row belongs to an organization row that exists.
C15_ReferentialIntegrity ==
  \A m \in organization_members : GetOrg(m.org_id) # {}

\* an AddMember that had passed its checks has just been refused at its
\* commit, the organization having been deleted meanwhile; no row of the
\* organization is left
C15_Witness ==
  /\ Done("add_member") /\ Status = 500
  /\ Gone(response.req.org_id)
  /\ MembersOf(response.req.org_id) = {}

\* --------------------------------------------------------------------- C16
\* C16: in every state, whatever the interleaving of the requests, no two
\* membership rows have the same (org_id, user_id): a user has at most one
\* role in an organization.
C16_OneRowPerKey ==
  \A m1, m2 \in organization_members : Key(m1) = Key(m2) => m1 = m2

\* of two concurrent AddMember of the same user with different roles, the
\* second to commit has just been refused by the primary key; the user has
\* the one row of the first
C16_Witness ==
  /\ Done("add_member") /\ Status = 500
  /\ GetOrg(response.req.org_id) # {}
  /\ \E m \in organization_members :
       /\ Key(m) = <<response.req.org_id, response.req.user_id>>
       /\ m.role # response.req.role
       /\ RowsOf(organization_members, m.org_id, m.user_id) = {m}

\* --------------------------------------------------------------------- C17
\* C17: in every state no two organization rows have the same name; a
\* CreateOrganization whose name was stored by a concurrent one after its
\* pre-check stores nothing at its commit, neither an organization row nor
\* a founder row.
C17_UniqueNames ==
  /\ [](\A o1, o2 \in organizations : o1.name = o2.name => o1 = o2)
  /\ [][\A p \in Procs :
          /\ Executes(p, "create_commit")
          /\ \E o \in organizations : o.name = req[p].name
          => /\ UNCHANGED Tables
             /\ response'.req = req[p]
             /\ response'.res.status # 200]_vars

\* two users asked for the same name at once: the second to commit has just
\* been refused, and the name belongs to the first, the only member of the
\* organization
C17_Witness ==
  /\ Done("create_organization") /\ Status # 200 /\ Status # 409
  /\ \E o \in organizations :
       /\ o.name = response.req.name
       /\ o.created_by # response.req.acting
       /\ MembersOf(o.org_id) =
            {MemberRow(o.org_id, o.created_by, "admin", o.created_by,
                       o.created_at)}
  /\ MembershipsOf(response.req.acting) = {}

\* --------------------------------------------------------------------- C18
\* C18: with requests served one after the other (SpecSeq), a user who has
\* a membership row of X finds the organization row of X, so
\* GetOrganization(X, u) is answered with the organization (200) when u has
\* a row in X and Forbidden (403) otherwise, also for an identifier deleted
\* or never created; it is never answered NotFound (404).
C18_GetNeverNotFound ==
  /\ [](\A m \in organization_members : GetOrg(m.org_id) # {})
  /\ [](Done("get_organization")
        => /\ Status # 404
           /\ Status =
                IF get_membership(response.req.org_id, response.req.acting)
                     # {}
                THEN 200 ELSE 403)
  /\ [][\A p \in Procs :
          Executes(p, "get_org") => pc'[p] = "get_members"]_vars

\* a member who did not found the organization has just read it, with its
\* two members
C18_Witness ==
  /\ Done("get_organization") /\ Status = 200
  /\ \E o \in response.res.org : o.created_by # response.req.acting
  /\ Len(response.res.members) = 2

\* --------------------------------------------------------------------- C19
\* organization org_id exists and none of its membership rows is an admin's
ZeroAdmin(org_id) == GetOrg(org_id) # {} /\ Admins(org_id) = {}

OthersUnchanged(org_id) ==
  \A y \in OrgIds \ {org_id} :
    GetOrg(y)' = GetOrg(y) /\ MembersOf(y)' = MembersOf(y)

\* C20: no statement of AddMember, UpdateMember, RemoveMember or
\* DeleteOrganization on X, whether the request succeeds or fails, changes
\* the organization row or a membership row of an organization other than
\* X; a membership mutation on Y by a caller who is an admin elsewhere but
\* not in Y is answered Forbidden (403).
C20_Isolation ==
  [][/\ BeginsOp(MemberOps \cup {"delete_organization"})
          => OthersUnchanged(Begun.org_id)
     /\ \A p \in Procs :
          Steps(p) /\ req[p].op \in MemberOps \cup {"delete_organization"}
          => OthersUnchanged(req[p].org_id)
     /\ /\ BeginsOp(MemberOps)
        /\ ~IsAdmin(Begun.org_id, Begun.acting)
        /\ \E x \in OrgIds : IsAdmin(x, Begun.acting)
        => Answered(Begun, HTTPException(403)) /\ UNCHANGED Tables]_vars

\* a member of two organizations has just been removed from one of them and
\* keeps their row in the other
C20_Witness ==
  /\ Done("remove_member") /\ Status = 200
  /\ get_membership(response.req.org_id, response.req.user_id) = {}
  /\ GetOrg(response.req.org_id) # {}
  /\ \E m \in MembershipsOf(response.req.user_id) :
       m.org_id # response.req.org_id
====
